---- MODULE Spec2Model ----
(***************************************************************************)
(* A model of the upload pipeline of the v3d server backend:               *)
(*   backend/app/api/videos.py          upload_video and the status writers *)
(*   backend/app/utils/file_converter.py, video_converter.py  the transcoder *)
(*   backend/app/utils/video_frame_extractor.py               the extractor  *)
(*                                                                         *)
(* One batch (one call of upload_video) is modelled together with the      *)
(* other requests that write the same video record.  The coroutines that   *)
(* asyncio.gather runs and the worker threads of asyncio.to_thread         *)
(* interleave at every await, at every external process and at every file  *)
(* operation.  The database is taken to answer every commit.               *)
(*                                                                         *)
(* The other routers are modelled with the requests that race with each    *)
(* other: delete_video (videos.py, utils/storage.py), the job requests     *)
(* (api/jobs.py, services/tasks.py, services/prodia.py) and the account    *)
(* requests (api/auth.py, api/users.py).  Their handlers are plain `def`   *)
(* functions that run in worker threads, each with its own database        *)
(* session, so they interleave between any two database or network calls.  *)
(***************************************************************************)
EXTENDS Integers, Sequences, FiniteSets, TLC

\* ------------------------------------------------------------------ bounds
MaxVideos == 2
MaxBackgrounds == 2
MaxStem == 2
MaxCpu == 3
MaxFrames == 3
MaxKeys == 11
MaxJobs == 2
MaxRequests == 3
MaxUsers == 3
MaxUserRequests == 4

\* ------------------------------------------------------------ file names
\* A file name is "cam_<letter><ext>"; stem k stands for the k-th letter.
VideoExts == {".mp4", ".ts", ".avi"}
BackgroundExts == {".mp4", ".png", ".jpg"}
CalibrationExts == {".json", ".txt", ".xml"}

\* The extensions in the order Python compares them as strings.
ExtOrder == <<".avi", ".jpg", ".json", ".mp4", ".png", ".ts", ".txt", ".xml">>

ExtRank(e) == CHOOSE k \in 1..Len(ExtOrder) : ExtOrder[k] = e

\* filename_a <= filename_b as Python strings: the stem letter decides, then
\* the extension.
NameLeq(a, b) ==
    \/ a.stem < b.stem
    \/ a.stem = b.stem /\ ExtRank(a.ext) <= ExtRank(b.ext)

\* The request's files of one group: the uploaded parts, each tagged with its
\* position in the request (id), which also names its bytes.
Tagged(files) == [k \in 1..Len(files) |-> [id |-> k, stem |-> files[k].stem, ext |-> files[k].ext]]

\* Insert x after every element whose key is <= x's key (a stable insertion).
RECURSIVE InsertByName(_, _)
InsertByName(x, s) ==
    IF s = <<>> THEN <<x>>
    ELSE IF NameLeq(Head(s), x) THEN <<Head(s)>> \o InsertByName(x, Tail(s))
    ELSE <<x>> \o s

RECURSIVE SortedFrom(_, _)
SortedFrom(s, acc) ==
    IF s = <<>> THEN acc ELSE SortedFrom(Tail(s), InsertByName(Head(s), acc))

\* The files numbered in request order, the sort left out.
SortedByName_RequestOrder(files) == Tagged(files)

\* sorted(files, key=lambda f: f.filename or ""): stable, ascending.
SortedByName(files) == SortedFrom(Tagged(files), <<>>)

\* The listings ffprobe may give for a stream: up to MaxFrames frames (none
\* when the file has no video stream), each with its picture type and the
\* position of its packet.
FrameListings ==
    UNION {[1..n -> [pict_type : {"I", "P", "B"}, pkt_pos : {0, 188}]] : n \in 0..MaxFrames}

\* The file lists a request may carry: 1..maxLen files with distinct names.
FileSeqs(exts, maxLen) ==
    {f \in UNION {[1..n -> [stem : 1..MaxStem, ext : exts]] : n \in 1..maxLen} :
        \A i, j \in DOMAIN f : i # j => f[i].stem # f[j].stem}

\* ------------------------------------------------------- worker cap
\* os.cpu_count() or 1; 0 stands for None (unknown).
CpuCountOr1(cpu) == IF cpu = 0 THEN 1 ELSE cpu

IntMax(a, b) == IF a >= b THEN a ELSE b

\* The cap without the 0.8 factor.
MaxWorkers_Unscaled(cpu) == IntMax(1, CpuCountOr1(cpu))

\* max(1, int(cpu_count * 0.8))
MaxWorkers(cpu) == IntMax(1, (CpuCountOr1(cpu) * 8) \div 10)

\* ------------------------------------------------------- byte contents
\* What ffprobe lists for the remuxed stream of video id: one line per frame,
\* pict_type and pkt_pos.  Streams of different files differ in length and in
\* where their I-frames lie.
ProbeFrames(id) ==
    [k \in 1..(id + 2) |->
        [pict_type |-> IF (k - 1) % (id + 1) = 0 THEN "I" ELSE "P",
         pkt_pos |-> (k - 1) * (id + 3)]]

NoData == [kind |-> "none"]
RawBytes(group, id) == [kind |-> "raw", group |-> group, src |-> id]
\* A transport stream ffmpeg wrote from video id; `frames` is what ffprobe
\* lists for it.
RemuxedTs(id) == [kind |-> "ts", src |-> id, frames |-> ProbeFrames(id)]
PngOf(id) == [kind |-> "png", src |-> id]
PartialOutput == [kind |-> "partial", magic |-> "TSGOPIDX"]

\* The frames numbered by counting the I-frames only.
RECURSIVE IFramesFrom_CountingKept(_, _)
IFramesFrom_CountingKept(frames, k) ==
    IF k > Len(frames) THEN <<>>
    ELSE IF frames[k].pict_type = "I"
         THEN LET rest == IFramesFrom_CountingKept(frames, k + 1)
              IN <<[frame_index |-> 0, offset |-> frames[k].pkt_pos]>>
                     \o [j \in DOMAIN rest |->
                            [rest[j] EXCEPT !.frame_index = rest[j].frame_index + 1]]
         ELSE IFramesFrom_CountingKept(frames, k + 1)

RECURSIVE IFramesFrom(_, _)
IFramesFrom(frames, k) ==
    IF k > Len(frames) THEN <<>>
    ELSE IF frames[k].pict_type = "I"
         THEN <<[frame_index |-> k - 1, offset |-> frames[k].pkt_pos]>> \o IFramesFrom(frames, k + 1)
         ELSE IFramesFrom(frames, k + 1)

NoneIndex == [none |-> TRUE, indices |-> <<>>, nframe |-> 0]

\* get_gop_offsets on a file holding `content`: frames numbered from 0 in
\* listing order, the I-frames kept, and the number of frames.
get_gop_offsets(content) ==
    [none |-> FALSE,
     indices |-> IFramesFrom(content.frames, 1),
     nframe |-> Len(content.frames)]

\* The header size with 8-byte table entries.
HeaderSize_ShortEntries(indices) == 8 + 4 + 4 + 4 + Len(indices) * 8

HeaderSize(indices) == 8 + 4 + 4 + 4 + Len(indices) * (4 + 8)

\* The byte widths of the fields add_header writes before the payload, in
\* write order: the magic, three 4-byte integers, then 4 + 8 bytes per entry.
RECURSIVE EntryWidths(_)
EntryWidths(n) == IF n = 0 THEN <<>> ELSE <<4, 8>> \o EntryWidths(n - 1)

\* add_header writing the scanner's offsets as they are.
add_header_RawOffsets(payload, indices, nframe) ==
    [kind |-> "indexed",
     widths |-> <<8, 4, 4, 4>> \o EntryWidths(Len(indices)),
     magic |-> "TSGOPIDX",
     header_size |-> HeaderSize(indices),
     count |-> Len(indices),
     nframe |-> nframe,
     table |-> [k \in 1..Len(indices) |->
                  [frame_index |-> indices[k].frame_index, offset |-> indices[k].offset]],
     payload |-> payload]

\* add_header: magic, header size, entry count, frame count, the table with
\* every offset moved by the header size, then the payload.
add_header(payload, indices, nframe) ==
    [kind |-> "indexed",
     widths |-> <<8, 4, 4, 4>> \o EntryWidths(Len(indices)),
     magic |-> "TSGOPIDX",
     header_size |-> HeaderSize(indices),
     count |-> Len(indices),
     nframe |-> nframe,
     table |-> [k \in 1..Len(indices) |->
                  [frame_index |-> indices[k].frame_index,
                   offset |-> indices[k].offset + HeaderSize(indices)]],
     payload |-> payload]

\* ------------------------------------------------------- temporary files
ConvertedTs == <<"converted", 0>>
InputPath(t) == <<"in", t[2]>>
OutputPath(stem) == <<"out", stem>>
\* The extractor's input copy and its output, input_path + ".png".
ExtractInputPath(t) == <<"xin", t[2]>>
ExtractOutputPath(t) == <<"xout", t[2]>>

FsWrite(fs, p, c) == [q \in DOMAIN fs \cup {p} |-> IF q = p THEN c ELSE fs[q]]
FsUnlink(fs, ps) == [q \in DOMAIN fs \ ps |-> fs[q]]
EmptyFs == <<>>

\* ------------------------------------------------------- object keys
\* Every object under video/, whatever its group.
ObjectKey_OneCategory(category, filename) ==
    [prefix |-> "prefix/uuid", category |-> "video", filename |-> filename]

\* f"{key_prefix}/{uuid_dir}/<category>/<filename>"
ObjectKey(category, filename) ==
    [prefix |-> "prefix/uuid", category |-> category, filename |-> filename]

\* Every camera given the file name of the first.
CamFilename_FirstIndex(index, ext) == <<"cam_", 1, ext>>

\* f"cam_{index}{ext}"
CamFilename(index, ext) == <<"cam_", index, ext>>
CalibrationFilename == <<"calibration_ba", 0, ".json">>

\* ------------------------------------------------------------------ state
VARIABLES
    videos,          \* the request's video parts, in request order
    backgrounds,     \* the request's background parts (<<>> until first used)
    calibration,     \* the calibration part's extension ("" until first used)
    cpu_count,       \* os.cpu_count(), 0 for None
    status,          \* the persisted Video.status, "absent" before the insert
    lastWriter,      \* the operation that last wrote status
    studio,          \* Video.studio (update_video)
    is_public,       \* Video.is_public (update_video_visibility)
    pc,              \* where upload_video stands
    result,          \* what upload_video gave its caller
    sorted_videos,   \* sorted(videos, ...)
    sorted_backgrounds,
    semaphore,       \* the value of asyncio.Semaphore(max_workers)
    tasks,           \* the coroutines gather has created, by <<group, index>>
    raised,          \* per group, the first exception a task of it raised
    tmp,             \* the files under the temporary directory
    store,           \* the objects in the blob store, by key
    spawned          \* the external processes started so far

VARIABLES
    del,             \* the delete_video request on the batch's record
    jobs,            \* the rows of the jobs table, by id
    jobreqs,         \* the job requests under way, by request
    upstream,        \* the calls made to the workflow service so far
    users,           \* the rows of the users table, by id
    userreqs         \* the account requests under way, by request

serviceVars == <<del, jobs, jobreqs, upstream, users, userreqs>>

vars == <<videos, backgrounds, calibration, cpu_count, status, lastWriter, studio,
          is_public, pc, result, sorted_videos, sorted_backgrounds, semaphore,
          tasks, raised, tmp, store, spawned, serviceVars>>

\* What no step of upload_video writes: its request, the host, and the
\* tables and requests of the other routers.
inputVars == <<videos, cpu_count, serviceVars>>
recordVars == <<status, lastWriter, studio, is_public>>

NoResult == [code |-> 0, detail |-> "", error |-> ""]
NoException == [error |-> "", task |-> <<"", 0>>]

\* No delete_video request has been made.
NoDelete == [pc |-> "idle", listed |-> <<>>, pos |-> 0, failed_keys |-> <<>>,
             code |-> 0, error |-> "", named |-> <<>>, count |-> 0]

\* The other routers at rest: no job, no account, no request.
InitService ==
    /\ del = NoDelete
    /\ jobs = <<>>
    /\ jobreqs = <<>>
    /\ upstream = {}
    /\ users = <<>>
    /\ userreqs = <<>>

Init ==
    /\ videos \in FileSeqs(VideoExts, MaxVideos)
    /\ backgrounds = <<>>
    /\ calibration = ""
    /\ cpu_count \in 0..MaxCpu
    /\ status = "absent"
    /\ lastWriter = "none"
    /\ studio = "studio_a"
    /\ is_public = FALSE
    /\ pc = "create"
    /\ result = NoResult
    /\ sorted_videos = <<>>
    /\ sorted_backgrounds = <<>>
    /\ semaphore = 0
    /\ tasks = <<>>
    /\ raised = [g \in {"video", "background"} |-> NoException]
    /\ tmp = EmptyFs
    /\ store = <<>>
    /\ spawned = {}
    /\ InitService

\* ------------------------------------------------------------ task helpers
NewTask == [pc |-> "waiting", file_data |-> NoData, index |-> NoneIndex, error |-> ""]

TasksOf(group) == {t \in DOMAIN tasks : t[1] = group}

\* The source file a task was created for.
FileOf(t) == IF t[1] = "video" THEN sorted_videos[t[2]] ELSE sorted_backgrounds[t[2]]

\* A task is inside `async with semaphore` from the acquire to its exit.
InsideSemaphore(t) == tasks[t].pc \notin {"waiting", "ok", "failed"}

Finished(t) == tasks[t].pc \in {"ok", "failed"}

\* The task ends with an exception and keeps its permit.
Fail_KeepingPermit(t, error) ==
    /\ tasks' = [tasks EXCEPT ![t].pc = "failed", ![t].error = error]
    /\ semaphore' = semaphore
    /\ raised' = IF raised[t[1]] = NoException
                 THEN [raised EXCEPT ![t[1]] = [error |-> error, task |-> t]]
                 ELSE raised

\* The task leaves `async with semaphore` with an exception: the permit is
\* released, and gather keeps the first exception of the group.
Fail(t, error) ==
    /\ tasks' = [tasks EXCEPT ![t].pc = "failed", ![t].error = error]
    /\ semaphore' = semaphore + 1
    /\ raised' = IF raised[t[1]] = NoException
                 THEN [raised EXCEPT ![t[1]] = [error |-> error, task |-> t]]
                 ELSE raised

\* The finally block of convert_video_mp4_to_ts: the input copy and the output
\* file are unlinked when they exist.
CleanedUp(fs, t) == FsUnlink(fs, {InputPath(t), OutputPath(FileOf(t).stem)})

\* The finally block of extract_frame_from_video_data with its second unlink
\* left out.
ExtractorCleanedUp_InputOnly(fs, t) == FsUnlink(fs, {ExtractInputPath(t)})

\* The finally block of extract_frame_from_video_data.
ExtractorCleanedUp(fs, t) == FsUnlink(fs, {ExtractInputPath(t), ExtractOutputPath(t)})

\* ------------------------------------------------- upload_video: the handler
\* The handler going on without the insert.
CreateRecord_NotPersisted ==
    /\ pc = "create"
    /\ pc' = "dispatch_videos"
    /\ UNCHANGED <<inputVars, backgrounds, calibration, recordVars, result,
                   sorted_videos, sorted_backgrounds, semaphore, tasks, raised, tmp,
                   store, spawned>>

\* Lines 161-181: the record is inserted with status "uploading".
CreateRecord ==
    /\ pc = "create"
    /\ status' = "uploading"
    /\ lastWriter' = "upload_video"
    /\ pc' = "dispatch_videos"
    /\ UNCHANGED <<inputVars, backgrounds, calibration, studio, is_public, result,
                   sorted_videos, sorted_backgrounds, semaphore, tasks, raised, tmp,
                   store, spawned>>

\* Lines 183-261: the semaphore is built, the videos are sorted and gather
\* creates one coroutine per video, index i + 1 for the i-th sorted file.
DispatchVideos ==
    /\ pc = "dispatch_videos"
    /\ semaphore' = MaxWorkers(cpu_count)
    /\ sorted_videos' = SortedByName(videos)
    /\ tasks' = [t \in {<<"video", i>> : i \in 1..Len(videos)} |-> NewTask]
    /\ pc' = "videos"
    /\ UNCHANGED <<inputVars, backgrounds, calibration, recordVars, result,
                   sorted_backgrounds, raised, tmp, store, spawned>>

\* async with semaphore: a waiting coroutine takes a permit.
Acquire(t) ==
    /\ tasks[t].pc = "waiting"
    /\ semaphore > 0
    /\ semaphore' = semaphore - 1
    /\ tasks' = [tasks EXCEPT ![t].pc = "acquired"]
    /\ UNCHANGED <<inputVars, backgrounds, calibration, recordVars, pc, result,
                   sorted_videos, sorted_backgrounds, raised, tmp, store, spawned>>

\* ------------------------------------------------ process_video_file's steps
\* The routing without its else branch: any other extension passes through.
VideoRead_NoExtCheck(t) ==
    /\ t[1] = "video"
    /\ tasks[t].pc = "acquired"
    /\ tasks' = [tasks EXCEPT ![t].pc = IF FileOf(t).ext = ".mp4" THEN "input" ELSE "upload",
                               ![t].file_data = RawBytes("video", FileOf(t).id)]
    /\ UNCHANGED <<inputVars, backgrounds, calibration, recordVars, pc, result,
                   sorted_videos, sorted_backgrounds, semaphore, raised, tmp, store, spawned>>

\* Lines 193-209: the part is read and routed by its extension.  Once the
\* handler has returned the framework may have closed the part, and the read
\* may raise.
VideoRead(t) ==
    /\ t[1] = "video"
    /\ tasks[t].pc = "acquired"
    /\ \/ /\ pc = "done"
          /\ Fail(t, "read")
       \/ /\ FileOf(t).ext = ".mp4"
          /\ tasks' = [tasks EXCEPT ![t].pc = "input",
                                     ![t].file_data = RawBytes("video", FileOf(t).id)]
          /\ UNCHANGED <<semaphore, raised>>
       \/ /\ FileOf(t).ext = ".ts"
          /\ tasks' = [tasks EXCEPT ![t].pc = "upload",
                                     ![t].file_data = RawBytes("video", FileOf(t).id)]
          /\ UNCHANGED <<semaphore, raised>>
       \/ /\ FileOf(t).ext \notin {".mp4", ".ts"}
          /\ Fail(t, "unsupported")
    /\ UNCHANGED <<inputVars, backgrounds, calibration, recordVars, pc, result,
                   sorted_videos, sorted_backgrounds, tmp, store, spawned>>

\* convert_video_mp4_to_ts, lines 55-64: the bytes go to a fresh temporary
\* file; the output path is <tmpdir>/<stem of the original name>.ts.
WriteInput(t) ==
    /\ tasks[t].pc = "input"
    /\ tmp' = FsWrite(tmp, InputPath(t), tasks[t].file_data)
    /\ tasks' = [tasks EXCEPT ![t].pc = "remux"]
    /\ UNCHANGED <<inputVars, backgrounds, calibration, recordVars, pc, result,
                   sorted_videos, sorted_backgrounds, semaphore, raised, store, spawned>>

\* convert_to_indexed_ts_file, lines 79-93: ffmpeg remuxes the input copy
\* into the fixed path /tmp/converted.ts, or exits non-zero.
Remux(t) ==
    /\ tasks[t].pc = "remux"
    /\ spawned' = spawned \cup {<<"ffmpeg", t>>}
    /\ \/ /\ tmp' = FsWrite(tmp, ConvertedTs, RemuxedTs(tmp[InputPath(t)].src))
          /\ tasks' = [tasks EXCEPT ![t].pc = "scan"]
          /\ UNCHANGED <<semaphore, raised>>
       \/ /\ tmp' = CleanedUp(tmp, t)
          /\ Fail(t, "transcode")
    /\ UNCHANGED <<inputVars, backgrounds, calibration, recordVars, pc, result,
                   sorted_videos, sorted_backgrounds, store>>

\* get_gop_offsets, lines 17-47: ffprobe reads whatever /tmp/converted.ts
\* holds now; when the file is missing, ffprobe exits non-zero or its output
\* does not parse, the function returns (None, None).
Scan(t) ==
    /\ tasks[t].pc = "scan"
    /\ spawned' = spawned \cup {<<"ffprobe", t>>}
    /\ \/ /\ ConvertedTs \in DOMAIN tmp
          /\ tasks' = [tasks EXCEPT ![t].pc = "header",
                                     ![t].index = get_gop_offsets(tmp[ConvertedTs])]
       \/ tasks' = [tasks EXCEPT ![t].pc = "header", ![t].index = NoneIndex]
    /\ UNCHANGED <<inputVars, backgrounds, calibration, recordVars, pc, result,
                   sorted_videos, sorted_backgrounds, semaphore, raised, tmp, store>>

\* add_header, lines 49-69, called with the scan's result: the output file
\* is opened for writing and the magic written, then len(None) raises, or
\* the header and the bytes /tmp/converted.ts holds now are written.
AddHeader(t) ==
    /\ tasks[t].pc = "header"
    /\ IF tasks[t].index.none
       THEN /\ tmp' = FsWrite(tmp, OutputPath(FileOf(t).stem), PartialOutput)
            /\ tasks' = [tasks EXCEPT ![t].pc = "raised"]
       ELSE /\ tmp' = FsWrite(tmp, OutputPath(FileOf(t).stem),
                              add_header(tmp[ConvertedTs], tasks[t].index.indices,
                                         tasks[t].index.nframe))
            /\ tasks' = [tasks EXCEPT ![t].pc = "readback"]
    /\ UNCHANGED <<inputVars, backgrounds, calibration, recordVars, pc, result,
                   sorted_videos, sorted_backgrounds, semaphore, raised, store, spawned>>

\* convert_video_mp4_to_ts, lines 78-91: the exception add_header raised
\* reaches the except clause; the finally block unlinks the input copy and
\* the output file, and the RuntimeError leaves the coroutine.
TranscodeRaised(t) ==
    /\ tasks[t].pc = "raised"
    /\ tmp' = CleanedUp(tmp, t)
    /\ Fail(t, "transcode")
    /\ UNCHANGED <<inputVars, backgrounds, calibration, recordVars, pc, result,
                   sorted_videos, sorted_backgrounds, store, spawned>>

\* convert_video_mp4_to_ts, lines 69-91: the output file is read back (it is
\* gone when another conversion of the same stem has cleaned up) and the
\* finally block unlinks the input copy and the output file.
ReadBack(t) ==
    /\ tasks[t].pc = "readback"
    /\ tmp' = CleanedUp(tmp, t)
    /\ IF OutputPath(FileOf(t).stem) \in DOMAIN tmp
       THEN /\ tasks' = [tasks EXCEPT ![t].pc = "upload",
                                      ![t].file_data = tmp[OutputPath(FileOf(t).stem)]]
            /\ UNCHANGED <<semaphore, raised>>
       ELSE Fail(t, "transcode")
    /\ UNCHANGED <<inputVars, backgrounds, calibration, recordVars, pc, result,
                   sorted_videos, sorted_backgrounds, store, spawned>>

\* ------------------------------------------- process_background_file's steps
\* Lines 226-242.
BackgroundRead(t) ==
    /\ t[1] = "background"
    /\ tasks[t].pc = "acquired"
    /\ \/ /\ pc = "done"
          /\ Fail(t, "read")
       \/ /\ FileOf(t).ext = ".mp4"
          /\ tasks' = [tasks EXCEPT ![t].pc = "extract",
                                     ![t].file_data = RawBytes("background", FileOf(t).id)]
          /\ UNCHANGED <<semaphore, raised>>
       \/ /\ FileOf(t).ext = ".png"
          /\ tasks' = [tasks EXCEPT ![t].pc = "upload",
                                     ![t].file_data = RawBytes("background", FileOf(t).id)]
          /\ UNCHANGED <<semaphore, raised>>
       \/ /\ FileOf(t).ext \notin {".mp4", ".png"}
          /\ Fail(t, "unsupported")
    /\ UNCHANGED <<inputVars, backgrounds, calibration, recordVars, pc, result,
                   sorted_videos, sorted_backgrounds, tmp, store, spawned>>

\* extract_frame_from_video_data, lines 31-38: the bytes go to a fresh
\* temporary file.
ExtractWriteInput(t) ==
    /\ tasks[t].pc = "extract"
    /\ tmp' = FsWrite(tmp, ExtractInputPath(t), tasks[t].file_data)
    /\ tasks' = [tasks EXCEPT ![t].pc = "frame"]
    /\ UNCHANGED <<inputVars, backgrounds, calibration, recordVars, pc, result,
                   sorted_videos, sorted_backgrounds, semaphore, raised, store, spawned>>

\* Lines 41-59 and 67-85: ffmpeg runs under timeout=60.  It exits 0 having
\* written the frame, exits 0 having written nothing, or is killed at the
\* timeout or exits non-zero (a partial output may be left); the last two
\* raise, and the finally block unlinks both files.
Extract(t) ==
    /\ tasks[t].pc = "frame"
    /\ spawned' = spawned \cup {<<"ffmpeg", t>>}
    /\ \/ /\ tmp' = FsWrite(tmp, ExtractOutputPath(t), PngOf(tmp[ExtractInputPath(t)].src))
          /\ tasks' = [tasks EXCEPT ![t].pc = "png"]
          /\ UNCHANGED <<semaphore, raised>>
       \/ /\ tasks' = [tasks EXCEPT ![t].pc = "png"]
          /\ UNCHANGED <<tmp, semaphore, raised>>
       \/ /\ \E partial \in BOOLEAN :
                tmp' = ExtractorCleanedUp(
                           IF partial THEN FsWrite(tmp, ExtractOutputPath(t), PartialOutput)
                           ELSE tmp, t)
          /\ Fail(t, "extract")
    /\ UNCHANGED <<inputVars, backgrounds, calibration, recordVars, pc, result,
                   sorted_videos, sorted_backgrounds, store>>

\* Lines 61-65 and 72-85: the output is read and returned, or the open of a
\* missing output raises; the finally block unlinks both files.
ExtractRead(t) ==
    /\ tasks[t].pc = "png"
    /\ tmp' = ExtractorCleanedUp(tmp, t)
    /\ IF ExtractOutputPath(t) \in DOMAIN tmp
       THEN /\ tasks' = [tasks EXCEPT ![t].pc = "upload",
                                      ![t].file_data = tmp[ExtractOutputPath(t)]]
            /\ UNCHANGED <<semaphore, raised>>
       ELSE Fail(t, "extract")
    /\ UNCHANGED <<inputVars, backgrounds, calibration, recordVars, pc, result,
                   sorted_videos, sorted_backgrounds, store, spawned>>

\* The object named after the source's own extension.
TargetFilename_KeepExt(t) == CamFilename(t[2], FileOf(t).ext)

\* filename = f"cam_{index}.ts" / f"cam_{index}.png"
TargetFilename(t) == CamFilename(t[2], IF t[1] = "video" THEN ".ts" ELSE ".png")

\* Lines 211-216 and 244-249: upload_file_to_tos puts the bytes under the
\* task's key, or raises; the task then leaves the semaphore.
Upload(t) ==
    /\ tasks[t].pc = "upload"
    /\ \/ /\ store' = FsWrite(store, ObjectKey(t[1], TargetFilename(t)), tasks[t].file_data)
          /\ tasks' = [tasks EXCEPT ![t].pc = "ok"]
          /\ semaphore' = semaphore + 1
          /\ UNCHANGED raised
       \/ /\ Fail(t, "storage")
          /\ UNCHANGED store
    /\ UNCHANGED <<inputVars, backgrounds, calibration, recordVars, pc, result,
                   sorted_videos, sorted_backgrounds, tmp, spawned>>

\* ------------------------------------------- upload_video: after each gather
\* gather(..., return_exceptions=True): the group is over once every
\* coroutine has finished, whatever its outcome.
AllOk_Finished(group) == \A t \in TasksOf(group) : Finished(t)

\* gather returning as soon as one coroutine has returned.
AllOk_Any(group) == \E t \in TasksOf(group) : tasks[t].pc = "ok"

AllOk(group) == \A t \in TasksOf(group) : tasks[t].pc = "ok"

ErrorResult(detail, error) == [code |-> 500, detail |-> detail, error |-> error]

\* Lines 257-261 and 267-273: gather returns once every video coroutine has
\* returned; the backgrounds are sorted and their coroutines created.
VideosGathered ==
    /\ pc = "videos"
    /\ AllOk("video")
    /\ \E files \in FileSeqs(BackgroundExts, MaxBackgrounds) :
          /\ backgrounds' = files
          /\ sorted_backgrounds' = SortedByName(files)
          /\ tasks' = [t \in DOMAIN tasks \cup {<<"background", i>> : i \in 1..Len(files)} |->
                          IF t \in DOMAIN tasks THEN tasks[t] ELSE NewTask]
    /\ pc' = "backgrounds"
    /\ UNCHANGED <<inputVars, calibration, recordVars, result, sorted_videos, semaphore,
                   raised, tmp, store, spawned>>

\* The handler answering 500 without committing the status.
GroupFailed_NoCommit(group) ==
    /\ pc = group \o "s"
    /\ raised[group] # NoException
    /\ result' = ErrorResult(group, raised[group].error)
    /\ pc' = "done"
    /\ UNCHANGED <<inputVars, backgrounds, calibration, recordVars, sorted_videos,
                   sorted_backgrounds, semaphore, tasks, raised, tmp, store, spawned>>

\* The handler cancelling the coroutines that have not finished.
GroupFailed_Cancelling(group) ==
    /\ pc = group \o "s"
    /\ raised[group] # NoException
    /\ status' = "failed"
    /\ lastWriter' = "upload_video"
    /\ result' = ErrorResult(group, raised[group].error)
    /\ pc' = "done"
    /\ tasks' = [t \in DOMAIN tasks |->
                    IF Finished(t) THEN tasks[t]
                    ELSE [tasks[t] EXCEPT !.pc = "failed", !.error = "cancelled"]]
    /\ semaphore' = MaxWorkers(cpu_count)
    /\ UNCHANGED <<inputVars, backgrounds, calibration, studio, is_public, sorted_videos,
                   sorted_backgrounds, raised, tmp, store, spawned>>

\* Lines 262-265 and 274-277: gather raises the first exception of the group
\* as soon as one coroutine has raised; the siblings keep running.  The
\* handler writes "failed" and answers 500.
GroupFailed(group) ==
    /\ pc = group \o "s"
    /\ raised[group] # NoException
    /\ status' = "failed"
    /\ lastWriter' = "upload_video"
    /\ result' = ErrorResult(group, raised[group].error)
    /\ pc' = "done"
    /\ UNCHANGED <<inputVars, backgrounds, calibration, studio, is_public, sorted_videos,
                   sorted_backgrounds, semaphore, tasks, raised, tmp, store, spawned>>

BackgroundsGathered ==
    /\ pc = "backgrounds"
    /\ AllOk("background")
    /\ pc' = "calibration"
    /\ UNCHANGED <<inputVars, backgrounds, calibration, recordVars, result, sorted_videos,
                   sorted_backgrounds, semaphore, tasks, raised, tmp, store, spawned>>

\* The calibration step marking the batch failed and then going on, the raise
\* after the commit left out.
Calibration_NoRaise ==
    /\ pc = "calibration"
    /\ \E ext \in CalibrationExts :
          /\ calibration' = ext
          /\ \/ /\ status' = "failed"
                /\ lastWriter' = "upload_video"
                /\ result' = result
                /\ pc' = "finalize"
                /\ UNCHANGED store
             \/ /\ ext \in {".json", ".txt"}
                /\ store' = FsWrite(store, ObjectKey("calibration", CalibrationFilename),
                                    RawBytes("calibration", 1))
                /\ pc' = "finalize"
                /\ UNCHANGED <<status, lastWriter, result>>
    /\ UNCHANGED <<inputVars, backgrounds, studio, is_public, sorted_videos,
                   sorted_backgrounds, semaphore, tasks, raised, tmp, spawned>>

\* Lines 279-305: the calibration part is read, its extension checked (the
\* HTTPException(400) is caught by the except Exception below it) and its
\* bytes are put under calibration/calibration_ba.json.
Calibration ==
    /\ pc = "calibration"
    /\ \E ext \in CalibrationExts :
          /\ calibration' = ext
          /\ \/ /\ ext \notin {".json", ".txt"}
                /\ status' = "failed"
                /\ lastWriter' = "upload_video"
                /\ result' = ErrorResult("calibration", "unsupported")
                /\ pc' = "done"
                /\ UNCHANGED store
             \/ /\ ext \in {".json", ".txt"}
                /\ status' = "failed"
                /\ lastWriter' = "upload_video"
                /\ result' = ErrorResult("calibration", "storage")
                /\ pc' = "done"
                /\ UNCHANGED store
             \/ /\ ext \in {".json", ".txt"}
                /\ store' = FsWrite(store, ObjectKey("calibration", CalibrationFilename),
                                    RawBytes("calibration", 1))
                /\ pc' = "finalize"
                /\ UNCHANGED <<status, lastWriter, result>>
    /\ UNCHANGED <<inputVars, backgrounds, studio, is_public, sorted_videos,
                   sorted_backgrounds, semaphore, tasks, raised, tmp, spawned>>

\* Lines 307-313.
Finalize ==
    /\ pc = "finalize"
    /\ status' = "ready"
    /\ lastWriter' = "upload_video"
    /\ result' = [code |-> 200, detail |-> "", error |-> ""]
    /\ pc' = "done"
    /\ UNCHANGED <<inputVars, backgrounds, calibration, studio, is_public, sorted_videos,
                   sorted_backgrounds, semaphore, tasks, raised, tmp, store, spawned>>

\* ------------------------------------- the other requests on the same record
pipelineVars == <<videos, backgrounds, calibration, cpu_count, pc, result, sorted_videos,
                  sorted_backgrounds, semaphore, tasks, raised, tmp, store, spawned,
                  serviceVars>>

\* Lines 454-476, called by the record's owner.
mark_video_ready ==
    /\ status # "absent"
    /\ status' = "ready"
    /\ lastWriter' = "mark_video_ready"
    /\ UNCHANGED <<pipelineVars, studio, is_public>>

\* Lines 479-500, called by the record's owner.
mark_video_failed ==
    /\ status # "absent"
    /\ status' = "failed"
    /\ lastWriter' = "mark_video_failed"
    /\ UNCHANGED <<pipelineVars, studio, is_public>>

\* Lines 503-534: the descriptive fields are rewritten.
update_video ==
    /\ status # "absent"
    /\ \E s \in {"studio_a", "studio_b"} : studio' = s
    /\ UNCHANGED <<pipelineVars, status, lastWriter, is_public>>

\* Lines 663-699.
update_video_visibility ==
    /\ status # "absent"
    /\ \E b \in BOOLEAN : is_public' = b
    /\ UNCHANGED <<pipelineVars, status, lastWriter, studio>>

\* ------------------------------------------------------------- delete_video
\* The one video record of the model.
VideoId == 1

\* error_msg shows failed_keys[:10].
MaxNamed == 10

IntMin(a, b) == IF a <= b THEN a ELSE b

CategoryRank(category) ==
    CASE category = "background" -> 1
      [] category = "calibration" -> 2
      [] category = "video" -> 3

\* Where "cam_<index>" stands among the file names compared as strings:
\* cam_1, cam_10, cam_11, ..., cam_2, ...
LexRank(index) ==
    IF index < 10 THEN index * 100 ELSE (index \div 10) * 100 + (index % 10) + 1

KeyRank(key) == CategoryRank(key.category) * 10000 + LexRank(key.filename[2])

RECURSIVE KeysInOrder(_)
KeysInOrder(keys) ==
    IF keys = {} THEN <<>>
    ELSE LET first == CHOOSE k \in keys : \A other \in keys : KeyRank(k) <= KeyRank(other)
         IN  <<first>> \o KeysInOrder(keys \ {first})

\* list_tos_objects: the keys under the record's prefix, in the order the
\* store lists them.  Every object of the model lies under that prefix, and a
\* batch is listed in one page.
list_tos_objects(objects) == KeysInOrder(DOMAIN objects)

Range(seq) == {seq[i] : i \in 1..Len(seq)}

JobsOfVideo == {j \in DOMAIN jobs : jobs[j].video_id = VideoId}

DeleteDone(code, error) == [del EXCEPT !.pc = "done", !.code = code, !.error = error]

\* delete_video up to the job count, for a caller who is a superuser: 404 when
\* the record does not exist, 400 when a job refers to the video.
DeleteVideoCheck ==
    /\ del.pc = "idle"
    /\ del' = IF status \in {"absent", "deleted"} THEN DeleteDone(404, "not found")
              ELSE IF JobsOfVideo # {} THEN DeleteDone(400, "jobs")
              ELSE [del EXCEPT !.pc = "list"]
    /\ UNCHANGED <<videos, backgrounds, calibration, cpu_count, recordVars, pc, result,
                   sorted_videos, sorted_backgrounds, semaphore, tasks, raised, tmp,
                   store, spawned, jobs, jobreqs, upstream, users, userreqs>>

\* delete_tos_objects_by_prefix, lines 215-221: the listing, or a RuntimeError
\* that delete_video turns into a 500.
DeleteList ==
    /\ del.pc = "list"
    /\ \/ del' = [del EXCEPT !.pc = "delete", !.listed = list_tos_objects(store), !.pos = 1]
       \/ del' = DeleteDone(500, "list")
    /\ UNCHANGED <<videos, backgrounds, calibration, cpu_count, recordVars, pc, result,
                   sorted_videos, sorted_backgrounds, semaphore, tasks, raised, tmp,
                   store, spawned, jobs, jobreqs, upstream, users, userreqs>>

\* The loop given up at the first key that fails.
DeleteObject_StopOnFailure ==
    /\ del.pc = "delete"
    /\ del.pos <= Len(del.listed)
    /\ \/ /\ store' = FsUnlink(store, {del.listed[del.pos]})
          /\ del' = [del EXCEPT !.pos = @ + 1]
       \/ /\ del' = [del EXCEPT !.pos = Len(del.listed) + 1,
                                !.failed_keys = Append(@, del.listed[del.pos])]
          /\ UNCHANGED store
    /\ UNCHANGED <<videos, backgrounds, calibration, cpu_count, recordVars, pc, result,
                   sorted_videos, sorted_backgrounds, semaphore, tasks, raised, tmp,
                   spawned, jobs, jobreqs, upstream, users, userreqs>>

\* Lines 224-231: one turn of the loop.  delete_tos_object removes the key or
\* raises; a failure is recorded and the loop goes on.
DeleteObject ==
    /\ del.pc = "delete"
    /\ del.pos <= Len(del.listed)
    /\ \/ /\ store' = FsUnlink(store, {del.listed[del.pos]})
          /\ del' = [del EXCEPT !.pos = @ + 1]
       \/ /\ del' = [del EXCEPT !.pos = @ + 1,
                                !.failed_keys = Append(@, del.listed[del.pos])]
          /\ UNCHANGED store
    /\ UNCHANGED <<videos, backgrounds, calibration, cpu_count, recordVars, pc, result,
                   sorted_videos, sorted_backgrounds, semaphore, tasks, raised, tmp,
                   spawned, jobs, jobreqs, upstream, users, userreqs>>

\* Lines 235-243 and videos.py 423-433: after the loop, one RuntimeError when
\* any key failed.  Its message gives the number of failed keys and the first
\* MaxNamed of them; delete_video answers 500 and keeps the record.
DeleteLoopDone ==
    /\ del.pc = "delete"
    /\ del.pos > Len(del.listed)
    /\ del' = IF del.failed_keys # <<>>
              THEN [DeleteDone(500, "delete") EXCEPT
                        !.named = SubSeq(del.failed_keys, 1,
                                         IntMin(MaxNamed, Len(del.failed_keys))),
                        !.count = Len(del.failed_keys)]
              ELSE [del EXCEPT !.pc = "record"]
    /\ UNCHANGED <<videos, backgrounds, calibration, cpu_count, recordVars, pc, result,
                   sorted_videos, sorted_backgrounds, semaphore, tasks, raised, tmp,
                   store, spawned, jobs, jobreqs, upstream, users, userreqs>>

\* videos.py 437-451: db.delete(video); db.commit().  The flush sets the
\* video_id of the jobs it finds for the video to NULL (relationship backref
\* "jobs", no delete cascade), which the column refuses (nullable=False): the
\* commit then fails, the session is rolled back and the record stays.
DeleteRecord ==
    /\ del.pc = "record"
    /\ IF JobsOfVideo # {}
       THEN /\ del' = DeleteDone(500, "database")
            /\ UNCHANGED <<status, lastWriter>>
       ELSE /\ del' = DeleteDone(200, "")
            /\ status' = "deleted"
            /\ lastWriter' = "delete_video"
    /\ UNCHANGED <<videos, backgrounds, calibration, cpu_count, studio, is_public, pc,
                   result, sorted_videos, sorted_backgrounds, semaphore, tasks, raised,
                   tmp, store, spawned, jobs, jobreqs, upstream, users, userreqs>>

\* ---------------------------------------------------------- specifications
UploadVideo ==
    \/ CreateRecord
    \/ DispatchVideos
    \/ VideosGathered
    \/ GroupFailed("video")
    \/ GroupFailed("background")
    \/ BackgroundsGathered
    \/ Calibration
    \/ Finalize
    \/ \E t \in DOMAIN tasks : Acquire(t)
    \/ \E t \in DOMAIN tasks : VideoRead(t)
    \/ \E t \in DOMAIN tasks : WriteInput(t)
    \/ \E t \in DOMAIN tasks : Remux(t)
    \/ \E t \in DOMAIN tasks : Scan(t)
    \/ \E t \in DOMAIN tasks : AddHeader(t)
    \/ \E t \in DOMAIN tasks : TranscodeRaised(t)
    \/ \E t \in DOMAIN tasks : ReadBack(t)
    \/ \E t \in DOMAIN tasks : BackgroundRead(t)
    \/ \E t \in DOMAIN tasks : ExtractWriteInput(t)
    \/ \E t \in DOMAIN tasks : Extract(t)
    \/ \E t \in DOMAIN tasks : ExtractRead(t)
    \/ \E t \in DOMAIN tasks : Upload(t)

\* upload_video alone.
SpecUpload == Init /\ [][UploadVideo]_vars

\* upload_video alone, the event loop running whatever can run: a coroutine
\* that is ready is resumed, and a thread, an external process or a store
\* call that was started returns.
SpecUploadFair == SpecUpload /\ WF_vars(UploadVideo)

Next ==
    \/ UploadVideo
    \/ mark_video_ready
    \/ mark_video_failed
    \/ update_video
    \/ update_video_visibility

\* upload_video and the other requests that write the record.
Spec == Init /\ [][Next]_vars

\* One worker thread inside convert_to_indexed_ts_file, ffmpeg having exited 0:
\* /tmp/converted.ts holds a stream with any listing, or does not exist.
InitConverter ==
    /\ videos = <<[stem |-> 1, ext |-> ".mp4"]>>
    /\ backgrounds = <<>>
    /\ calibration = ""
    /\ cpu_count = 1
    /\ status = "uploading"
    /\ lastWriter = "upload_video"
    /\ studio = "studio_a"
    /\ is_public = FALSE
    /\ pc = "videos"
    /\ result = NoResult
    /\ sorted_videos = SortedByName(videos)
    /\ sorted_backgrounds = <<>>
    /\ semaphore = MaxWorkers(cpu_count) - 1
    /\ tasks = [t \in {<<"video", 1>>} |->
                  [NewTask EXCEPT !.pc = "scan", !.file_data = RawBytes("video", 1)]]
    /\ raised = [g \in {"video", "background"} |-> NoException]
    /\ \E listing \in FrameListings, exists \in BOOLEAN :
          tmp = IF exists
                THEN FsWrite(FsWrite(EmptyFs, InputPath(<<"video", 1>>), RawBytes("video", 1)),
                             ConvertedTs, [kind |-> "ts", src |-> 1, frames |-> listing])
                ELSE FsWrite(EmptyFs, InputPath(<<"video", 1>>), RawBytes("video", 1))
    /\ store = <<>>
    /\ spawned = {<<"ffmpeg", <<"video", 1>>>>}
    /\ InitService

ConverterNext ==
    \/ \E t \in DOMAIN tasks : Scan(t)
    \/ \E t \in DOMAIN tasks : AddHeader(t)
    \/ \E t \in DOMAIN tasks : TranscodeRaised(t)
    \/ \E t \in DOMAIN tasks : ReadBack(t)

\* add_index_header_to_video_file and the rest of the transcode, on any stream.
SpecConverter == InitConverter /\ [][ConverterNext]_vars

\* ------------------------------------------------------------ job requests
\* Job.run_id of a job that has none (nullable column, None).
NoRunId == 0

\* What the workflow service may report as the state of a run, in its own
\* vocabulary.
UpstreamStatuses == {"RUNNING", "COMPLETED"}

\* No status found in the response (extract_status returns None).
NoStatus == ""

\* The outcomes of one call to the workflow service: a usable answer, a
\* ProdiaClientError (no API key, HTTP status not ok, body not JSON, no runId
\* in the answer to start), or an exception of requests.post itself
\* (connection refused, timeout after 30 s), which is no ProdiaClientError.
CallOutcomes == {"ok", "ProdiaClientError", "RequestException"}

\* What no job request writes.
uploadVars == <<videos, backgrounds, calibration, cpu_count, pc, result, sorted_videos,
                sorted_backgrounds, semaphore, tasks, raised, tmp, spawned>>

Request(op, at, job) ==
    [op |-> op, pc |-> at, job |-> job, status |-> "", run_id |-> NoRunId,
     code |-> 0, error |-> "", extracted |-> NoStatus]

\* The request has answered: 200, an HTTPException, or 500 for an exception
\* no handler catches.
Answered(request, code, error) == [request EXCEPT !.pc = "done", !.code = code, !.error = error]

\* client.<op>(run_id) has been called; `ok` tells whether it returned.
Called(op, run_id, outcome) == [op |-> op, run_id |-> run_id, ok |-> outcome = "ok"]

\* create_job, lines 88-90: the video is looked up; 404 when there is none.
CreateJobCheck ==
    /\ Len(jobreqs) < MaxRequests
    /\ Cardinality({r \in DOMAIN jobreqs : jobreqs[r].op = "create"}) < MaxJobs
    /\ jobreqs' = Append(jobreqs,
                         IF status \in {"absent", "deleted"}
                         THEN Answered(Request("create", "", 0), 404, "Video not found")
                         ELSE Request("create", "insert", 0))
    /\ UNCHANGED <<uploadVars, recordVars, store, del, jobs, upstream, users, userreqs>>

\* Lines 106-116: the job is inserted with status "pending" and committed.
\* When the video has been deleted since the lookup, the insert goes through
\* or fails on the foreign key videos.id, as the database enforces it or not
\* (SQLite, the default database_url, does not unless told to).
CreateJobInsert(r) ==
    /\ jobreqs[r].op = "create"
    /\ jobreqs[r].pc = "insert"
    /\ \/ LET id == Len(jobs) + 1
          IN  /\ jobs' = Append(jobs, [video_id |-> VideoId, status |-> "pending",
                                       run_id |-> NoRunId])
              /\ jobreqs' = [jobreqs EXCEPT ![r].pc = "start", ![r].job = id,
                                            ![r].status = "pending"]
       \/ /\ status \in {"absent", "deleted"}
          /\ jobreqs' = [jobreqs EXCEPT ![r] = Answered(@, 500, "IntegrityError")]
          /\ UNCHANGED jobs
    /\ UNCHANGED <<uploadVars, recordVars, store, del, upstream, users, userreqs>>

\* submit_processing_job and lines 120-125.  The start call returns the run_id,
\* which is written with "processing"; a ProdiaClientError is caught, the job
\* is written "failed" and the caller gets 502; any other exception (of
\* requests.post, or of _build_blob, which runs before the try) passes through
\* both handlers and leaves the job as it was inserted.  The run of job n is
\* run n.
CreateJobStart(r) ==
    /\ jobreqs[r].op = "create"
    /\ jobreqs[r].pc = "start"
    /\ LET id == jobreqs[r].job
       IN  \/ /\ jobreqs' = [jobreqs EXCEPT ![r] = Answered(@, 500, "_build_blob")]
              /\ UNCHANGED <<jobs, upstream>>
           \/ \E outcome \in CallOutcomes :
                 /\ upstream' = upstream \cup {Called("start", id, outcome)}
                 /\ CASE outcome = "ok" ->
                            /\ jobs' = [jobs EXCEPT ![id].run_id = id,
                                                    ![id].status = "processing"]
                            /\ jobreqs' = [jobreqs EXCEPT ![r] = Answered(@, 200, "")]
                      [] outcome = "ProdiaClientError" ->
                            /\ jobs' = [jobs EXCEPT ![id].status = "failed"]
                            /\ jobreqs' = [jobreqs EXCEPT ![r] = Answered(@, 502, outcome)]
                      [] outcome = "RequestException" ->
                            /\ jobreqs' = [jobreqs EXCEPT ![r] = Answered(@, 500, outcome)]
                            /\ UNCHANGED jobs
    /\ UNCHANGED <<uploadVars, recordVars, store, del, users, userreqs>>

\* The job a terminate or sync request asks for is loaded into its session:
\* 404 when there is none, and a ProdiaClientError (502) before any call when
\* the loaded job has no run_id (tasks.py 84-85 and 99-100).
Loaded(op, id) ==
    IF id \notin DOMAIN jobs
    THEN Answered(Request(op, "", id), 404, "Job not found")
    ELSE IF jobs[id].run_id = NoRunId
    THEN Answered([Request(op, "", id) EXCEPT !.status = jobs[id].status], 502, "no run_id")
    ELSE [Request(op, "call", id) EXCEPT !.status = jobs[id].status,
                                         !.run_id = jobs[id].run_id]

\* terminate_job without the test for a run_id.
TerminateJobLoad_NoRunIdTest ==
    \E id \in 1..MaxJobs :
        /\ Len(jobreqs) < MaxRequests
        /\ jobreqs' = Append(jobreqs,
                             IF id \notin DOMAIN jobs
                             THEN Answered(Request("terminate", "", id), 404, "Job not found")
                             ELSE [Request("terminate", "call", id) EXCEPT
                                       !.status = jobs[id].status,
                                       !.run_id = jobs[id].run_id])
        /\ UNCHANGED <<uploadVars, recordVars, store, del, jobs, upstream, users, userreqs>>

\* terminate_job, lines 281-285, and terminate_processing_job, lines 84-85.
TerminateJobLoad ==
    /\ Len(jobreqs) < MaxRequests
    /\ \E id \in 1..MaxJobs : jobreqs' = Append(jobreqs, Loaded("terminate", id))
    /\ UNCHANGED <<uploadVars, recordVars, store, del, jobs, upstream, users, userreqs>>

\* sync_job_status, lines 299-303, and sync_processing_status, lines 99-100.
SyncJobLoad ==
    /\ Len(jobreqs) < MaxRequests
    /\ \E id \in 1..MaxJobs : jobreqs' = Append(jobreqs, Loaded("sync", id))
    /\ UNCHANGED <<uploadVars, recordVars, store, del, jobs, upstream, users, userreqs>>

\* The columns the session writes at its commit: those whose value differs
\* from the one that was loaded.
WriteStatus(rows, request, new) ==
    IF new = request.status THEN rows ELSE [rows EXCEPT ![request.job].status = new]

\* terminate_processing_job writing "terminated" whatever the call did.
TerminateJobCall_Always(r) ==
    /\ jobreqs[r].op = "terminate"
    /\ jobreqs[r].pc = "call"
    /\ \E outcome \in CallOutcomes :
          /\ upstream' = upstream \cup {Called("terminate", jobreqs[r].run_id, outcome)}
          /\ jobs' = WriteStatus(jobs, jobreqs[r], "terminated")
          /\ jobreqs' = [jobreqs EXCEPT ![r] =
                            IF outcome = "ok" THEN Answered(@, 200, "")
                            ELSE Answered(@, IF outcome = "ProdiaClientError" THEN 502 ELSE 500,
                                          outcome)]
    /\ UNCHANGED <<uploadVars, recordVars, store, del, users, userreqs>>

\* terminate_processing_job, lines 86-95: the upstream call, then the status
\* "terminated" and the commit; an exception of the call passes through
\* before anything is written.
TerminateJobCall(r) ==
    /\ jobreqs[r].op = "terminate"
    /\ jobreqs[r].pc = "call"
    /\ \E outcome \in CallOutcomes :
          /\ upstream' = upstream \cup {Called("terminate", jobreqs[r].run_id, outcome)}
          /\ IF outcome = "ok"
             THEN /\ jobs' = WriteStatus(jobs, jobreqs[r], "terminated")
                  /\ jobreqs' = [jobreqs EXCEPT ![r] = Answered(@, 200, "")]
             ELSE /\ jobreqs' = [jobreqs EXCEPT ![r] =
                                    Answered(@, IF outcome = "ProdiaClientError" THEN 502 ELSE 500,
                                             outcome)]
                  /\ UNCHANGED jobs
    /\ UNCHANGED <<uploadVars, recordVars, store, del, users, userreqs>>

\* client.extract_status(resp) or job.status
StatusOrPrevious(extracted, previous) ==
    IF extracted = NoStatus THEN previous ELSE extracted

\* sync_processing_status, lines 101-107: the upstream call, then the status
\* found in the answer, or the loaded one when none is found, and the commit;
\* an exception of the call passes through before anything is written.
SyncJobCall(r) ==
    /\ jobreqs[r].op = "sync"
    /\ jobreqs[r].pc = "call"
    /\ \E outcome \in CallOutcomes :
          /\ upstream' = upstream \cup {Called("get", jobreqs[r].run_id, outcome)}
          /\ IF outcome = "ok"
             THEN \E extracted \in UpstreamStatuses \cup {NoStatus} :
                     /\ jobs' = WriteStatus(jobs, jobreqs[r],
                                            StatusOrPrevious(extracted, jobreqs[r].status))
                     /\ jobreqs' = [jobreqs EXCEPT ![r] =
                                       [Answered(@, 200, "") EXCEPT !.extracted = extracted]]
             ELSE /\ jobreqs' = [jobreqs EXCEPT ![r] =
                                    Answered(@, IF outcome = "ProdiaClientError" THEN 502 ELSE 500,
                                             outcome)]
                  /\ UNCHANGED jobs
    /\ UNCHANGED <<uploadVars, recordVars, store, del, users, userreqs>>

\* A batch of one video, one background and the calibration document that
\* upload_video has ended "ready".
ReadyBatch ==
    /\ videos = <<[stem |-> 1, ext |-> ".ts"]>>
    /\ backgrounds = <<[stem |-> 1, ext |-> ".png"]>>
    /\ calibration = ".json"
    /\ cpu_count = 1
    /\ status = "ready"
    /\ lastWriter = "upload_video"
    /\ studio = "studio_a"
    /\ is_public = FALSE
    /\ pc = "done"
    /\ result = [NoResult EXCEPT !.code = 200]
    /\ sorted_videos = SortedByName(videos)
    /\ sorted_backgrounds = SortedByName(backgrounds)
    /\ semaphore = MaxWorkers(cpu_count)
    /\ tasks = [t \in {<<"video", 1>>, <<"background", 1>>} |->
                  [NewTask EXCEPT !.pc = "ok", !.file_data = RawBytes(t[1], 1)]]
    /\ raised = [g \in {"video", "background"} |-> NoException]
    /\ tmp = EmptyFs
    /\ store = [key \in {ObjectKey("video", CamFilename(1, ".ts")),
                         ObjectKey("background", CamFilename(1, ".png")),
                         ObjectKey("calibration", CalibrationFilename)} |->
                  RawBytes(key.category, 1)]
    /\ spawned = {}

InitJobs == ReadyBatch /\ InitService

JobsNext ==
    \/ CreateJobCheck
    \/ \E r \in DOMAIN jobreqs : CreateJobInsert(r)
    \/ \E r \in DOMAIN jobreqs : CreateJobStart(r)
    \/ TerminateJobLoad
    \/ \E r \in DOMAIN jobreqs : TerminateJobCall(r)
    \/ SyncJobLoad
    \/ \E r \in DOMAIN jobreqs : SyncJobCall(r)
    \/ DeleteVideoCheck
    \/ DeleteList
    \/ DeleteObject
    \/ DeleteLoopDone
    \/ DeleteRecord

\* The job requests and delete_video on the record of a ready batch.
SpecJobs == InitJobs /\ [][JobsNext]_vars

\* --------------------------------------------------------- account requests
\* The accounts that exist.
Accounts == {u \in DOMAIN users : users[u].exists}

Superusers == {u \in Accounts : users[u].is_superuser}

NewAccount(is_superuser, via) ==
    [exists |-> TRUE, is_superuser |-> is_superuser, via |-> via, created_superuser |-> is_superuser]

AccountRequest(op, at, actor, target, value) ==
    [op |-> op, pc |-> at, actor |-> actor, target |-> target, value |-> value, code |-> 0]

AccountAnswered(request, code) == [request EXCEPT !.pc = "done", !.code = code]

\* The user owns a video or a job (delete_user, lines 163-169).
OwnsData(u) == u = VideoId /\ status \notin {"absent", "deleted"}

\* register_user, lines 26-35: the queries.  The e-mail address is new;
\* has_superuser and is_first_user are read from the table as it is now.
RegisterRead ==
    /\ Len(userreqs) < MaxUserRequests
    /\ Len(users) + Cardinality({r \in DOMAIN userreqs : userreqs[r].pc = "insert"}) < MaxUsers
    /\ LET has_superuser == Superusers # {}
           is_first_user == Accounts = {}
       IN  userreqs' = Append(userreqs,
                              AccountRequest("register_user", "insert", 0, 0,
                                             is_first_user /\ ~has_superuser))
    /\ UNCHANGED <<uploadVars, recordVars, store, del, jobs, jobreqs, upstream, users>>

\* Lines 37-46: the account is inserted with the is_superuser computed from
\* what the queries returned.
RegisterInsert(r) ==
    /\ userreqs[r].op = "register_user"
    /\ userreqs[r].pc = "insert"
    /\ users' = Append(users, NewAccount(userreqs[r].value, "register_user"))
    /\ userreqs' = [userreqs EXCEPT ![r] = [AccountAnswered(@, 200) EXCEPT !.target = Len(users')]]
    /\ UNCHANGED <<uploadVars, recordVars, store, del, jobs, jobreqs, upstream>>

\* Depends(deps.get_current_active_superuser) of create_user, update_user and
\* delete_user: the request of an account that is a superuser when the
\* dependency runs is passed on to the handler, with that account as
\* current_user.
Admitted(op, actor, target, value) ==
    Append(userreqs, AccountRequest(op, "handler", actor, target, value))

\* create_user, lines 58-62; `value` is the is_superuser of the request body.
CreateUserBegin ==
    /\ Len(userreqs) < MaxUserRequests
    /\ \E actor \in Superusers, value \in BOOLEAN :
          userreqs' = Admitted("create_user", actor, 0, value)
    /\ UNCHANGED <<uploadVars, recordVars, store, del, jobs, jobreqs, upstream, users>>

\* update_user, lines 102-107; `value` is the is_superuser of the request body.
UpdateUserBegin ==
    /\ Len(userreqs) < MaxUserRequests
    /\ \E actor \in Superusers, target \in DOMAIN users, value \in BOOLEAN :
          userreqs' = Admitted("update_user", actor, target, value)
    /\ UNCHANGED <<uploadVars, recordVars, store, del, jobs, jobreqs, upstream, users>>

\* delete_user, lines 148-152.
DeleteUserBegin ==
    /\ Len(userreqs) < MaxUserRequests
    /\ \E actor \in Superusers, target \in DOMAIN users :
          userreqs' = Admitted("delete_user", actor, target, FALSE)
    /\ UNCHANGED <<uploadVars, recordVars, store, del, jobs, jobreqs, upstream, users>>

\* create_user, lines 64-85: an account with the is_superuser that was asked
\* for.
CreateUser(r) ==
    /\ userreqs[r].op = "create_user"
    /\ userreqs[r].pc = "handler"
    /\ Len(users) < MaxUsers
    /\ users' = Append(users, NewAccount(userreqs[r].value, "create_user"))
    /\ userreqs' = [userreqs EXCEPT ![r] = AccountAnswered(@, 200)]
    /\ UNCHANGED <<uploadVars, recordVars, store, del, jobs, jobreqs, upstream>>

\* update_user, lines 109-144: 404 for an account that does not exist, 400
\* for a superuser who demotes themselves, else is_superuser is written.
UpdateUser(r) ==
    /\ userreqs[r].op = "update_user"
    /\ userreqs[r].pc = "handler"
    /\ LET target == userreqs[r].target
       IN  IF target \notin Accounts
           THEN /\ userreqs' = [userreqs EXCEPT ![r] = AccountAnswered(@, 404)]
                /\ UNCHANGED users
           ELSE IF ~userreqs[r].value /\ target = userreqs[r].actor
           THEN /\ userreqs' = [userreqs EXCEPT ![r] = AccountAnswered(@, 400)]
                /\ UNCHANGED users
           ELSE /\ users' = [users EXCEPT ![target].is_superuser = userreqs[r].value]
                /\ userreqs' = [userreqs EXCEPT ![r] = AccountAnswered(@, 200)]
    /\ UNCHANGED <<uploadVars, recordVars, store, del, jobs, jobreqs, upstream>>

\* delete_user, lines 154-182: 404 for an account that does not exist, 400
\* for one's own account and for an account that owns videos or jobs, else
\* the account is deleted.
DeleteUser(r) ==
    /\ userreqs[r].op = "delete_user"
    /\ userreqs[r].pc = "handler"
    /\ LET target == userreqs[r].target
       IN  IF target \notin Accounts
           THEN /\ userreqs' = [userreqs EXCEPT ![r] = AccountAnswered(@, 404)]
                /\ UNCHANGED users
           ELSE IF target = userreqs[r].actor \/ OwnsData(target)
           THEN /\ userreqs' = [userreqs EXCEPT ![r] = AccountAnswered(@, 400)]
                /\ UNCHANGED users
           ELSE /\ users' = [users EXCEPT ![target].exists = FALSE]
                /\ userreqs' = [userreqs EXCEPT ![r] = AccountAnswered(@, 200)]
    /\ UNCHANGED <<uploadVars, recordVars, store, del, jobs, jobreqs, upstream>>

\* A system that has just been set up: no account, no record, no request.
FreshSystem ==
    /\ videos = <<>>
    /\ backgrounds = <<>>
    /\ calibration = ""
    /\ cpu_count = 1
    /\ status = "absent"
    /\ lastWriter = "none"
    /\ studio = "studio_a"
    /\ is_public = FALSE
    /\ pc = "idle"
    /\ result = NoResult
    /\ sorted_videos = <<>>
    /\ sorted_backgrounds = <<>>
    /\ semaphore = 0
    /\ tasks = <<>>
    /\ raised = [g \in {"video", "background"} |-> NoException]
    /\ tmp = EmptyFs
    /\ store = <<>>
    /\ spawned = {}

InitUsers == FreshSystem /\ InitService

UsersNext ==
    \/ RegisterRead
    \/ \E r \in DOMAIN userreqs : RegisterInsert(r)
    \/ CreateUserBegin
    \/ \E r \in DOMAIN userreqs : CreateUser(r)
    \/ UpdateUserBegin
    \/ \E r \in DOMAIN userreqs : UpdateUser(r)
    \/ DeleteUserBegin
    \/ \E r \in DOMAIN userreqs : DeleteUser(r)

\* The account requests on a system that starts without accounts.
SpecUsers == InitUsers /\ [][UsersNext]_vars

\* A batch of any size whose upload has failed: the first `stored` cameras are
\* in the store, the upload of the next one raised and upload_video returned
\* with the record "failed"; one more coroutine may still be about to upload.
DeleteBatch(stored, pending) ==
    [k \in 1..(stored + 1 + (IF pending THEN 1 ELSE 0)) |-> [stem |-> k, ext |-> ".ts"]]

InitDelete ==
    \E stored \in 0..MaxKeys, pending \in BOOLEAN :
        /\ videos = DeleteBatch(stored, pending)
        /\ backgrounds = <<>>
        /\ calibration = ""
        /\ cpu_count = MaxCpu
        /\ status = "failed"
        /\ lastWriter = "upload_video"
        /\ studio = "studio_a"
        /\ is_public = FALSE
        /\ pc = "done"
        /\ result = ErrorResult("video", "storage")
        /\ sorted_videos = SortedByName(videos)
        /\ sorted_backgrounds = <<>>
        /\ semaphore = MaxWorkers(cpu_count) - (IF pending THEN 1 ELSE 0)
        /\ tasks = [t \in {<<"video", k>> : k \in 1..Len(videos)} |->
                      [NewTask EXCEPT
                          !.pc = IF t[2] <= stored THEN "ok"
                                 ELSE IF t[2] = stored + 1 THEN "failed" ELSE "upload",
                          !.file_data = RawBytes("video", t[2]),
                          !.error = IF t[2] = stored + 1 THEN "storage" ELSE ""]]
        /\ raised = [g \in {"video", "background"} |->
                       IF g = "video" THEN [error |-> "storage", task |-> <<"video", stored + 1>>]
                       ELSE NoException]
        /\ tmp = EmptyFs
        /\ store = [key \in {ObjectKey("video", CamFilename(k, ".ts")) : k \in 1..stored} |->
                      RawBytes("video", key.filename[2])]
        /\ spawned = {}
        /\ InitService

DeleteNext ==
    \/ \E t \in DOMAIN tasks : Upload(t)
    \/ DeleteVideoCheck
    \/ DeleteList
    \/ DeleteObject
    \/ DeleteLoopDone
    \/ DeleteRecord

\* delete_video on the record of a failed batch, beside what is left of its
\* upload.
SpecDelete == InitDelete /\ [][DeleteNext]_vars

\* ------------------------------------------------------------------ claims
VideosCompleted ==
    /\ sorted_videos # <<>>
    /\ \A i \in 1..Len(videos) : <<"video", i>> \in DOMAIN tasks /\ tasks[<<"video", i>>].pc = "ok"

BackgroundsCompleted ==
    /\ backgrounds # <<>>
    /\ \A j \in 1..Len(backgrounds) :
          <<"background", j>> \in DOMAIN tasks /\ tasks[<<"background", j>>].pc = "ok"

CalibrationCompleted == ObjectKey("calibration", CalibrationFilename) \in DOMAIN store

AllFilesCompleted == VideosCompleted /\ BackgroundsCompleted /\ CalibrationCompleted

Terminal == {"ready", "failed"}

\* C1 as claimed: in every state the status is "ready" if and only if every
\* video file, every background file and the calibration document completed
\* its transform-and-upload step, whichever operation last wrote the status.
C1_ReadyIffCompletedAnyWriter == (status = "ready") <=> AllFilesCompleted

\* C1 as amended: while upload_video is the operation that last wrote the
\* status, the status is "ready" only if every file of the batch completed its
\* transform-and-upload step, and once upload_video has returned it is "ready"
\* if and only if they all did.
C1_ReadyIffCompletedByUpload ==
    lastWriter = "upload_video" =>
        /\ status = "ready" => AllFilesCompleted
        /\ pc = "done" => (status = "ready" <=> AllFilesCompleted)

C1_Witness ==
    /\ status = "ready"
    /\ lastWriter = "upload_video"
    /\ AllFilesCompleted
    /\ Len(videos) = 2
    /\ Len(backgrounds) = 2

\* C2 as claimed: once the status is "ready" or "failed" no step changes it.
C2_TerminalImmutable == [][(status \in Terminal) => status' = status]_vars

\* C2 as amended: a terminal status is never changed by update_video or
\* update_video_visibility, and a terminal status that upload_video wrote is
\* not changed by the rest of upload_video (its coroutines that are still
\* running).
C2_TerminalKeptByUploadAndUpdates ==
    [][(status \in Terminal) =>
         /\ (studio' # studio \/ is_public' # is_public) => status' = status
         /\ (lastWriter = "upload_video" /\ pipelineVars' # pipelineVars) => status' = status]_vars

C2_Witness ==
    /\ status = "failed"
    /\ lastWriter = "upload_video"
    /\ pc = "done"
    /\ studio = "studio_b"
    /\ is_public
    /\ \E t \in DOMAIN tasks : tasks[t].pc = "ok"
    /\ \E t \in DOMAIN tasks : tasks[t].pc = "failed"

InFlight == {t \in DOMAIN tasks : InsideSemaphore(t)}

\* C3: at every moment the number of video and background coroutines of the
\* batch that are inside their transform-or-upload stage is at most
\* max(1, floor(0.8 * cpu_count)), which is 1 when cpu_count is 1 or unknown.
C3_WorkerCap ==
    /\ semaphore >= 0
    /\ Cardinality(InFlight) <=
          (IF cpu_count \in {0, 1} THEN 1
           ELSE IF (8 * cpu_count) \div 10 >= 1 THEN (8 * cpu_count) \div 10 ELSE 1)

\* The cap binds: one coroutine is in its external-process stage and its
\* sibling waits for the permit.
C3_Witness ==
    /\ cpu_count = 2
    /\ Cardinality(InFlight) = 1
    /\ \E t \in DOMAIN tasks : tasks[t].pc = "waiting"
    /\ \E t \in InFlight : tasks[t].pc \in {"scan", "extract"}

VideoTasks == TasksOf("video")

\* C4: a temporary file one transform task writes is not written by another
\* task: while a transcode still needs its intermediate remuxed TS (between
\* its own remux and its add_header), that file holds what this transcode
\* wrote into it.
C4_TempFilesExclusive ==
    \A t \in VideoTasks :
        tasks[t].pc \in {"scan", "header"} => tmp[ConvertedTs] = RemuxedTs(FileOf(t).id)

\* The frames of a remuxed stream, as the analysis tool lists them.
IsIFrameAt(payload, frame_index, pos) ==
    /\ frame_index + 1 \in DOMAIN ProbeFrames(payload.src)
    /\ ProbeFrames(payload.src)[frame_index + 1].pict_type = "I"
    /\ ProbeFrames(payload.src)[frame_index + 1].pkt_pos = pos

SelfConsistent(segment, id) ==
    /\ segment.kind = "indexed"
    /\ segment.payload = RemuxedTs(id)
    /\ segment.nframe = Len(ProbeFrames(id))
    /\ segment.count = Len(segment.table)
    /\ \A k \in DOMAIN segment.table :
          IsIFrameAt(segment.payload, segment.table[k].frame_index,
                     segment.table[k].offset - segment.header_size)

\* C5: for every .mp4 video of the batch the segment stored under its key
\* holds the remuxed stream of that file, with the frame count and the index
\* table of that stream, every offset pointing at its I-frame in the payload.
C5_SegmentSelfConsistent ==
    \A i \in DOMAIN sorted_videos :
        (/\ sorted_videos[i].ext = ".mp4"
         /\ ObjectKey("video", CamFilename(i, ".ts")) \in DOMAIN store)
        => SelfConsistent(store[ObjectKey("video", CamFilename(i, ".ts"))], sorted_videos[i].id)

\* C6: no background coroutine exists before every video coroutine has
\* returned successfully, the calibration step does not start before every
\* background coroutine has returned successfully, and once a file of a group
\* has failed nothing of a later group is started.
C6_GroupsInOrder ==
    /\ TasksOf("background") # {} => VideosCompleted
    /\ (pc \in {"calibration", "finalize"} \/ calibration # "" \/ CalibrationCompleted)
          => VideosCompleted /\ BackgroundsCompleted
    /\ (\E t \in TasksOf("video") : tasks[t].pc = "failed")
          => TasksOf("background") = {} /\ calibration = "" /\ ~CalibrationCompleted
    /\ (\E t \in TasksOf("background") : tasks[t].pc = "failed")
          => calibration = "" /\ ~CalibrationCompleted

C6_Witness ==
    /\ CalibrationCompleted
    /\ Len(videos) = 2
    /\ Len(backgrounds) = 2
    /\ \E i \in DOMAIN sorted_videos : sorted_videos[i].ext = ".mp4"
    /\ \E j \in DOMAIN sorted_backgrounds : sorted_backgrounds[j].ext = ".mp4"

CalibrationFailed == calibration # "" /\ ~CalibrationCompleted

AnyFileFailed == (\E t \in DOMAIN tasks : tasks[t].pc = "failed") \/ CalibrationFailed

\* C7: when the transform or the upload of any file of the batch fails,
\* upload_video is about to end or has ended with the status "failed" and a
\* 5xx answer; it never answers success for that batch and never leaves the
\* status "uploading" once it has returned.
C7_FailureEndsFailed ==
    /\ pc = "done" => status # "uploading"
    /\ (pc = "done" /\ AnyFileFailed) => status = "failed" /\ result.code = 500
    /\ result.code = 200 => ~AnyFileFailed
    /\ (AnyFileFailed /\ pc # "done")
          => \E g \in {"video", "background"} : pc = g \o "s" /\ raised[g] # NoException

C7_Witness ==
    /\ pc = "done"
    /\ status = "failed"
    /\ result.code = 500
    /\ \E t \in TasksOf("background") : tasks[t].pc = "failed" /\ tasks[t].error = "extract"

\* C8 as claimed: the status is "failed" only when no transform or upload of
\* the batch is in flight, and no object is written once it is "failed".
C8_FailedOnlyAfterGroupFinished ==
    [][/\ (status' = "failed") => InFlight' = {}
       /\ (status = "failed") => store' = store]_vars

\* C8 as amended: upload_video writes "failed" as soon as a file has failed,
\* and that step leaves every sibling coroutine, the semaphore and the
\* temporary files as they are: the siblings are neither cancelled nor
\* awaited.
C8_FailedOnFirstErrorSiblingsKept ==
    [][(status' = "failed" /\ status # "failed")
         => AnyFileFailed' /\ tasks' = tasks /\ semaphore' = semaphore /\ tmp' = tmp]_vars

C8_Witness ==
    /\ status = "failed"
    /\ pc = "done"
    /\ \E t \in InFlight : tasks[t].pc = "upload"
    /\ \E t \in DOMAIN tasks : tasks[t].pc = "failed" /\ tasks[t].error = "unsupported"

Unsupported(file) == file.ext \notin {".mp4", ".ts"}

HasUnsupportedVideo == \E k \in DOMAIN videos : Unsupported(videos[k])

\* C9 as claimed: with an unsupported extension in the video group no
\* external process is spawned for any file of the batch and the batch ends
\* "failed" with the unsupported-format error.
C9_NoProcessForAnyFile ==
    HasUnsupportedVideo =>
        /\ spawned = {}
        /\ pc = "done" => status = "failed" /\ result.error = "unsupported"

\* C9 as amended: no external process is ever spawned for the unsupported
\* file itself and it is never stored; its coroutine raises the unsupported-
\* format error (a read error once the request is over); upload_video ends
\* with "failed" and a 5xx answer and starts no background coroutine.
C9_NoProcessForUnsupportedFile ==
    HasUnsupportedVideo =>
        /\ \A i \in DOMAIN sorted_videos :
              Unsupported(sorted_videos[i]) =>
                /\ \A p \in spawned : p[2] # <<"video", i>>
                /\ tasks[<<"video", i>>].pc \in {"waiting", "acquired", "failed"}
                /\ tasks[<<"video", i>>].pc = "failed" =>
                      \/ tasks[<<"video", i>>].error = "unsupported"
                      \/ tasks[<<"video", i>>].error = "read" /\ pc = "done"
                /\ ObjectKey("video", CamFilename(i, ".ts")) \notin DOMAIN store
        /\ pc = "done" => status = "failed" /\ result.code = 500
        /\ TasksOf("background") = {}

C9_Witness ==
    /\ HasUnsupportedVideo
    /\ pc = "done"
    /\ status = "failed"
    /\ result.error = "unsupported"
    /\ spawned # {}

\* The 1-based position of file k among the files of its group ordered by
\* name (the names of a group are distinct).
Rank(files, k) == Cardinality({j \in DOMAIN files : NameLeq(files[j], files[k])})

\* The camera index each file of a request gets, in request order.
CameraIndices(files) ==
    [k \in DOMAIN files |-> CHOOSE i \in DOMAIN files : SortedByName(files)[i].id = k]

Named(stems, exts) == [k \in DOMAIN stems |-> [stem |-> stems[k], ext |-> exts[k]]]

\* C10: in each group the file that is i-th by name gets camera index i: the
\* i-th coroutine reads that file and a file passed through unchanged lies
\* under cam_i; this holds for the video group and the background group
\* separately and whatever the order in which the coroutines finish.  Videos
\* cam_b, cam_a, cam_c get 2, 1, 3 and backgrounds cam_z, cam_y, cam_x get
\* 3, 2, 1.
C10_CameraIndexBySortedName ==
    /\ sorted_videos # <<>> =>
          /\ Len(sorted_videos) = Len(videos)
          /\ \A i \in DOMAIN sorted_videos : Rank(videos, sorted_videos[i].id) = i
    /\ sorted_backgrounds # <<>> =>
          /\ Len(sorted_backgrounds) = Len(backgrounds)
          /\ \A i \in DOMAIN sorted_backgrounds : Rank(backgrounds, sorted_backgrounds[i].id) = i
    /\ \A t \in DOMAIN tasks :
          tasks[t].file_data.kind = "raw" =>
              Rank(IF t[1] = "video" THEN videos ELSE backgrounds, tasks[t].file_data.src) = t[2]
    /\ \A i \in DOMAIN sorted_videos :
          (/\ ObjectKey("video", CamFilename(i, ".ts")) \in DOMAIN store
           /\ store[ObjectKey("video", CamFilename(i, ".ts"))].kind = "raw")
          => Rank(videos, store[ObjectKey("video", CamFilename(i, ".ts"))].src) = i
    /\ \A i \in DOMAIN sorted_backgrounds :
          (/\ ObjectKey("background", CamFilename(i, ".png")) \in DOMAIN store
           /\ store[ObjectKey("background", CamFilename(i, ".png"))].kind = "raw")
          => Rank(backgrounds, store[ObjectKey("background", CamFilename(i, ".png"))].src) = i
    /\ CameraIndices(Named(<<2, 1, 3>>, <<".mp4", ".mp4", ".mp4">>)) = <<2, 1, 3>>
    /\ CameraIndices(Named(<<26, 25, 24>>, <<".png", ".mp4", ".png">>)) = <<3, 2, 1>>

C10_Witness ==
    /\ Len(videos) = 2
    /\ videos[1].stem > videos[2].stem
    /\ ObjectKey("video", CamFilename(1, ".ts")) \in DOMAIN store
    /\ store[ObjectKey("video", CamFilename(1, ".ts"))] = RawBytes("video", 2)
    /\ Len(backgrounds) = 2
    /\ backgrounds[1].stem < backgrounds[2].stem
    /\ ObjectKey("background", CamFilename(2, ".png")) \in DOMAIN store
    /\ store[ObjectKey("background", CamFilename(2, ".png"))] = RawBytes("background", 2)

VideoKey(i) == ObjectKey("video", CamFilename(i, ".ts"))

BackgroundKey(i) == ObjectKey("background", CamFilename(i, ".png"))

BatchKeys ==
    {VideoKey(i) : i \in DOMAIN sorted_videos}
        \cup {BackgroundKey(i) : i \in DOMAIN sorted_backgrounds}
        \cup {ObjectKey("calibration", CalibrationFilename)}

\* C11: a video .mp4 is stored as video/cam_n.ts holding the transcoder's
\* output, a video .ts as video/cam_n.ts with its own bytes, a background
\* .mp4 as background/cam_n.png holding the extractor's output, a background
\* .png as background/cam_n.png with its own bytes; a file with any other
\* extension is never stored and the batch ends "failed"; nothing is stored
\* under any other name.
C11_RoutedByExtension ==
    /\ DOMAIN store \subseteq BatchKeys
    /\ \A i \in DOMAIN sorted_videos :
          /\ VideoKey(i) \in DOMAIN store <=> tasks[<<"video", i>>].pc = "ok"
          /\ (sorted_videos[i].ext = ".mp4" /\ VideoKey(i) \in DOMAIN store)
                => store[VideoKey(i)].kind = "indexed"
          /\ (sorted_videos[i].ext = ".ts" /\ VideoKey(i) \in DOMAIN store)
                => store[VideoKey(i)] = RawBytes("video", sorted_videos[i].id)
          /\ sorted_videos[i].ext \notin {".mp4", ".ts"}
                => /\ VideoKey(i) \notin DOMAIN store
                   /\ pc = "done" => status = "failed"
    /\ \A i \in DOMAIN sorted_backgrounds :
          /\ BackgroundKey(i) \in DOMAIN store <=> tasks[<<"background", i>>].pc = "ok"
          /\ (sorted_backgrounds[i].ext = ".mp4" /\ BackgroundKey(i) \in DOMAIN store)
                => store[BackgroundKey(i)] = PngOf(sorted_backgrounds[i].id)
          /\ (sorted_backgrounds[i].ext = ".png" /\ BackgroundKey(i) \in DOMAIN store)
                => store[BackgroundKey(i)] = RawBytes("background", sorted_backgrounds[i].id)
          /\ sorted_backgrounds[i].ext \notin {".mp4", ".png"}
                => /\ BackgroundKey(i) \notin DOMAIN store
                   /\ pc = "done" => status = "failed"

C11_Witness ==
    /\ \E i, j \in DOMAIN sorted_videos :
          /\ sorted_videos[i].ext = ".mp4" /\ VideoKey(i) \in DOMAIN store
          /\ sorted_videos[j].ext = ".ts" /\ VideoKey(j) \in DOMAIN store
    /\ \E i, j \in DOMAIN sorted_backgrounds :
          /\ sorted_backgrounds[i].ext = ".mp4" /\ BackgroundKey(i) \in DOMAIN store
          /\ sorted_backgrounds[j].ext = ".png" /\ BackgroundKey(j) \in DOMAIN store

\* C12: when upload_video has ended with the unsupported-format error its
\* answer is of the 4xx class, and when it has ended with an external-tool
\* or storage error its answer is of the 5xx class.
C12_UnsupportedIsClientError ==
    pc = "done" =>
        /\ result.error = "unsupported" => result.code \in 400..499
        /\ result.error \in {"transcode", "extract", "storage"} => result.code \in 500..599

\* The group a stored content was made from.
Origin(content) ==
    IF content.kind = "raw" THEN content.group
    ELSE IF content.kind = "png" THEN "background"
    ELSE "video"

OkTasks(group) == {t \in TasksOf(group) : tasks[t].pc = "ok"}

\* C13: every stored object lies under the batch's prefix and one of the
\* categories video, background, calibration, the category being the group
\* its source was submitted in; each file that completed has one object, in
\* its own category.
C13_KeyLayout ==
    /\ \A k \in DOMAIN store :
          /\ k.prefix = "prefix/uuid"
          /\ k.category \in {"video", "background", "calibration"}
          /\ Origin(store[k]) = k.category
    /\ \A g \in {"video", "background"} :
          Cardinality({k \in DOMAIN store : k.category = g}) = Cardinality(OkTasks(g))
    /\ Cardinality({k \in DOMAIN store : k.category = "calibration"}) <= 1

C13_Witness ==
    /\ Cardinality({k \in DOMAIN store : k.category = "video"}) = 2
    /\ Cardinality({k \in DOMAIN store : k.category = "background"}) = 2
    /\ Cardinality({k \in DOMAIN store : k.category = "calibration"}) = 1

\* C14: whenever a coroutine of the batch exists, an external process has
\* been spawned, a temporary file or a stored object exists, the record is
\* persisted; and from the insert until upload_video writes its outcome the
\* persisted status is "uploading".
C14_RecordBeforeWork ==
    /\ (tasks # <<>> \/ sorted_videos # <<>> \/ spawned # {} \/ tmp # EmptyFs \/ store # <<>>)
          => status # "absent"
    /\ pc \in {"dispatch_videos", "videos", "backgrounds", "calibration", "finalize"}
          => status = "uploading"

C14_Witness ==
    /\ status = "uploading"
    /\ pc = "backgrounds"
    /\ store # <<>>
    /\ \E t \in TasksOf("background") : tasks[t].pc = "png"
    /\ \E t \in TasksOf("background") : tasks[t].pc = "waiting"

TranscoderPaths == {"in", "converted", "out"}

InsideTranscoder(t) == tasks[t].pc \in {"remux", "scan", "header", "raised", "readback"}

\* C15: when no call of the transcoder is under way, none of the temporary
\* files a transcode creates exists: the input copy, the remuxed stream and
\* the indexed output have been removed on every exit path.
C15_TranscoderTempFilesRemoved ==
    (\A t \in VideoTasks : ~InsideTranscoder(t))
        => \A path \in DOMAIN tmp : path[1] \notin TranscoderPaths

RECURSIVE SumSeq(_)
SumSeq(ws) == IF ws = <<>> THEN 0 ELSE Head(ws) + SumSeq(Tail(ws))

\* The indexed file a transcode has written and not yet read back.
WrittenOutputs == {t \in VideoTasks : tasks[t].pc = "readback"}

OutputOf(t) == tmp[OutputPath(FileOf(t).stem)]

\* C17: the file add_header wrote starts with the 8-byte magic; its header-
\* size field is 8 + 4 + 4 + 4 + 12 * entry_count, for 0 entries too, and is
\* the number of bytes written before the payload; what follows them is the
\* payload it was given.
C17_HeaderSizeAndPayload ==
    \A t \in WrittenOutputs :
        /\ OutputOf(t).magic = "TSGOPIDX"
        /\ Head(OutputOf(t).widths) = 8
        /\ OutputOf(t).count = Len(tasks[t].index.indices)
        /\ OutputOf(t).header_size = 8 + 4 + 4 + 4 + 12 * OutputOf(t).count
        /\ SumSeq(OutputOf(t).widths) = OutputOf(t).header_size
        /\ OutputOf(t).payload = tmp[ConvertedTs]

C17_Witness ==
    \E t \in WrittenOutputs :
        /\ OutputOf(t).count = 0
        /\ OutputOf(t).header_size = 20
        /\ OutputOf(t).nframe = 2

\* C18: the table add_header wrote has one entry per pair of the scanner's
\* mapping, in the scanner's order, with the scanner's frame index and the
\* scanner's offset plus the value of the header-size field.
C18_TableOffsetsShifted ==
    \A t \in WrittenOutputs :
        /\ Len(OutputOf(t).table) = Len(tasks[t].index.indices)
        /\ \A k \in DOMAIN OutputOf(t).table :
              /\ OutputOf(t).table[k].frame_index = tasks[t].index.indices[k].frame_index
              /\ OutputOf(t).table[k].offset
                    = tasks[t].index.indices[k].offset + OutputOf(t).header_size

C18_Witness ==
    \E t \in WrittenOutputs :
        /\ Len(OutputOf(t).table) = 2
        /\ OutputOf(t).table[1] = [frame_index |-> 0, offset |-> 188 + 44]
        /\ OutputOf(t).table[2] = [frame_index |-> 2, offset |-> 0 + 44]

\* The scans that returned a mapping and whose result add_header has not
\* consumed yet.
ScannedTasks == {t \in VideoTasks : tasks[t].pc = "header" /\ ~tasks[t].index.none}

\* C19: the frames are numbered 0, 1, 2, ... in listing order whatever their
\* picture type; the mapping has an entry for frame n exactly when frame n is
\* an I-frame, with that frame's packet position, the entries in stream
\* order; the total is the number of frames listed.
C19_IFramesByStreamOrder ==
    \A t \in ScannedTasks :
        LET frames == tmp[ConvertedTs].frames
            indices == tasks[t].index.indices
        IN /\ tasks[t].index.nframe = Len(frames)
           /\ \A n \in 0..(Len(frames) - 1) :
                 frames[n + 1].pict_type = "I"
                    <=> \E k \in DOMAIN indices :
                          /\ indices[k].frame_index = n
                          /\ indices[k].offset = frames[n + 1].pkt_pos
           /\ \A k \in DOMAIN indices : indices[k].frame_index \in 0..(Len(frames) - 1)
           /\ \A j, k \in DOMAIN indices :
                 j < k => indices[j].frame_index < indices[k].frame_index

C19_Witness ==
    \E t \in ScannedTasks :
        /\ tasks[t].index.nframe = 3
        /\ tasks[t].index.indices = <<[frame_index |-> 1, offset |-> 188],
                                       [frame_index |-> 2, offset |-> 0]>>

\* C20: after a scan that failed add_header is not run: no output file is
\* written for that input and the transcode has not got past the scan other
\* than by failing.
C20_NoHeaderAfterFailedScan ==
    \A t \in VideoTasks :
        (tasks[t].index.none /\ tasks[t].pc \in {"header", "raised", "failed"})
            => /\ tasks[t].pc # "raised"
               /\ OutputPath(FileOf(t).stem) \notin DOMAIN tmp

\* delete_tos_objects_by_prefix has raised its aggregate error.
DeleteRaised == del.pc = "done" /\ del.error = "delete"

\* Every listed key was tried: it is gone from the store or recorded as failed.
EveryListedKeyTried ==
    /\ del.pos = Len(del.listed) + 1
    /\ \A key \in Range(del.listed) :
          key \in Range(del.failed_keys) \/ key \notin DOMAIN store

\* C21 as claimed: when delete_tos_objects_by_prefix raises its aggregate
\* error, every listed key has been tried and the error names every key that
\* failed, however many failed.
C21_ErrorNamesEveryFailedKey ==
    DeleteRaised =>
        /\ EveryListedKeyTried
        /\ Range(del.failed_keys) \subseteq Range(del.named)

\* C21 as amended: the loop tries every listed key whatever failed before,
\* and exactly when some key failed one error is raised after the loop; the
\* error gives the number of failed keys and names the first ten of them in
\* listing order (all of them when at most ten failed).
C21_ErrorNamesFirstFailedKeys ==
    /\ DeleteRaised =>
          /\ EveryListedKeyTried
          /\ del.count = Len(del.failed_keys)
          /\ del.count >= 1
          /\ del.named = SubSeq(del.failed_keys, 1, IntMin(10, del.count))
          /\ del.count <= 10 => Range(del.named) = Range(del.failed_keys)
    /\ (del.pc \in {"record", "done"} /\ del.failed_keys # <<>>) => DeleteRaised
    /\ del.pc = "record" => EveryListedKeyTried

\* Eleven keys failed, among them one that was tried after a failure; the
\* error names ten.
C21_Witness ==
    /\ DeleteRaised
    /\ del.count = 11
    /\ Len(del.named) = 10
    /\ del.failed_keys[11] \notin Range(del.named)

\* C23: once the record is gone no object is left under its prefix.
C23_NoObjectWithoutRecord == status = "deleted" => DOMAIN store = {}

\* C27: the keys of one batch (video/cam_1..V, background/cam_1..B and
\* calibration/calibration_ba.json) are pairwise distinct, no step changes or
\* removes an object that is already stored, and when upload_video has
\* written "ready" the store holds exactly the V + B + 1 objects of the batch.
C27_DistinctKeysNoOverwrite ==
    [][/\ \A key \in DOMAIN store : key \in DOMAIN store' /\ store'[key] = store[key]
       /\ Cardinality(BatchKeys') = Len(sorted_videos') + Len(sorted_backgrounds') + 1
       /\ status' = "ready" =>
             /\ DOMAIN store' = BatchKeys'
             /\ Cardinality(DOMAIN store') = Len(videos') + Len(backgrounds') + 1]_vars

C27_Witness ==
    /\ status = "ready"
    /\ Len(videos) = 2
    /\ Len(backgrounds) = 2
    /\ DOMAIN store = {VideoKey(1), VideoKey(2), BackgroundKey(1), BackgroundKey(2),
                       ObjectKey("calibration", CalibrationFilename)}
    /\ Cardinality(DOMAIN store) = 5

TaskIds == {"video", "background"} \X (1..IntMax(MaxVideos, MaxBackgrounds))

Waiting(t) == t \in DOMAIN tasks /\ tasks[t].pc = "waiting"

\* C22: under fair scheduling, with every external call returning, a batch
\* whose status is "uploading" eventually has status "ready" or "failed", and
\* a coroutine that waits for a permit of the semaphore eventually stops
\* waiting.
C22_BatchTerminates ==
    /\ (status = "uploading") ~> (status \in Terminal)
    /\ \A t \in TaskIds : Waiting(t) ~> ~Waiting(t)

\* A batch is "ready" whose second video coroutine had to wait for the permit
\* of the first: the cap is one permit for two videos.
C22_Witness ==
    /\ status = "ready"
    /\ MaxWorkers(cpu_count) = 1
    /\ Len(videos) = 2
    /\ Len(backgrounds) = 2
    /\ \A t \in DOMAIN tasks : tasks[t].pc = "ok"
    /\ semaphore = 1

\* The create_job requests that have answered after inserting their job.
FinishedCreates ==
    {r \in DOMAIN jobreqs :
        jobreqs[r].op = "create" /\ jobreqs[r].pc = "done" /\ jobreqs[r].job \in DOMAIN jobs}

\* C24: once create_job has answered, normally or with an error, its job is
\* not in status "pending": it is "processing" with the run_id returned by
\* the start call, or the start call failed, the job is "failed" without a
\* run_id and the caller got an error.
C24_NeverLeftPending ==
    \A r \in FinishedCreates :
        LET job == jobs[jobreqs[r].job]
        IN  /\ job.status # "pending"
            /\ jobreqs[r].code = 200 => job.run_id # NoRunId
            /\ jobreqs[r].code # 200 => (job.status = "failed" /\ job.run_id = NoRunId)

\* C28: in every state every job refers to a video record that exists.
C28_JobsReferToVideo ==
    \A id \in DOMAIN jobs : jobs[id].video_id = VideoId /\ status \notin {"absent", "deleted"}

\* C29: a job without a run_id has status "pending" or "failed", so that
\* "processing", "terminated" and the statuses copied from the workflow
\* service occur only with a run_id; and no step changes or clears a run_id
\* that is set.
C29_RunIdAndStatus ==
    [][\A id \in DOMAIN jobs' :
          /\ jobs'[id].run_id = NoRunId => jobs'[id].status \in {"pending", "failed"}
          /\ (id \in DOMAIN jobs /\ jobs[id].run_id # NoRunId)
                => jobs'[id].run_id = jobs[id].run_id]_vars

\* One job carries a status copied from the workflow service under its
\* run_id, another has failed to start and has none.
C29_Witness ==
    /\ \E id \in DOMAIN jobs :
          jobs[id].run_id # NoRunId /\ jobs[id].status \in UpstreamStatuses
    /\ \E id \in DOMAIN jobs : jobs[id].run_id = NoRunId /\ jobs[id].status = "failed"

\* Request r, a terminate or a sync, answers in this step.
Answers(r) ==
    /\ jobreqs'[r].op \in {"terminate", "sync"}
    /\ jobreqs'[r].pc = "done"
    /\ r \in DOMAIN jobreqs => jobreqs[r].pc # "done"

\* C30: a terminate or sync that answers with an error leaves every job as
\* it was; when the job has no run_id no call to the workflow service is
\* made; a job becomes "terminated" only in the step of a terminate request
\* whose upstream call succeeded; and a sync whose answer carries no status
\* leaves the status as it was.
C30_FailedCallLeavesJob ==
    [][/\ \A r \in DOMAIN jobreqs' :
             Answers(r) =>
                /\ jobreqs'[r].code # 200 => jobs' = jobs
                /\ jobreqs'[r].error = "no run_id" => upstream' = upstream
                /\ (jobreqs'[r].op = "sync" /\ jobreqs'[r].extracted = NoStatus) => jobs' = jobs
       /\ \A id \in DOMAIN jobs' :
             (jobs'[id].status = "terminated"
                 /\ (id \in DOMAIN jobs => jobs[id].status # "terminated"))
             => /\ Called("terminate", jobs'[id].run_id, "ok") \in upstream'
                /\ \E r \in DOMAIN jobreqs' :
                      /\ Answers(r)
                      /\ jobreqs'[r].op = "terminate"
                      /\ jobreqs'[r].job = id
                      /\ jobreqs'[r].code = 200]_vars

\* A terminate has failed upstream and a sync has found no status in the
\* answer, and the job is still "processing" under its run_id.
C30_Witness ==
    /\ \E r \in DOMAIN jobreqs :
          /\ jobreqs[r].op = "terminate"
          /\ jobreqs[r].job = 1
          /\ jobreqs[r].code = 502
          /\ jobreqs[r].error = "ProdiaClientError"
    /\ \E r \in DOMAIN jobreqs :
          /\ jobreqs[r].op = "sync"
          /\ jobreqs[r].job = 1
          /\ jobreqs[r].code = 200
          /\ jobreqs[r].extracted = NoStatus
    /\ jobs[1].status = "processing"
    /\ jobs[1].run_id = 1

\* C25: once a superuser exists, every later state has at least one
\* superuser, whatever update_user and delete_user requests are made.
C25_SuperuserRemains == [][Superusers # {} => Superusers' # {}]_vars

\* C26: at most one account was made superuser by register_user, and only
\* the first account of the system was.
C26_OneSuperuserByRegistration ==
    \A u \in DOMAIN users :
        (users[u].via = "register_user" /\ users[u].created_superuser) => u = 1

====
